---- MODULE Spec2Model ----
(***************************************************************************)
(* The generic entity-to-REST layer of currentmember/common/service.py:    *)
(* class Entity (get, put, post, delete, list, add_routes), route_helper   *)
(* and the scoped cursor of class DB, over one backing table.              *)
(*                                                                         *)
(* Two descriptors are bound to the same table, one built with             *)
(* allow_delete=True and one with allow_delete=False; every request names  *)
(* the descriptor it goes through (Python's self).                         *)
(*                                                                         *)
(* A statement sent through cursor.execute is one atomic step of the       *)
(* store (the connection is opened with autocommit=True), and a handler    *)
(* is one action.  The events of the handler's cursors are kept in trace.  *)
(* Requests are served one at a time: a handler runs when no request is    *)
(* being served, and Respond hands its answer to the client.               *)
(*                                                                         *)
(* SpecRace adds two handlers in flight at once, a put and a delete of the *)
(* same row, each with its own cursor; their statements reach the store    *)
(* one at a time, in either order.                                         *)
(***************************************************************************)
EXTENDS Integers, Sequences, FiniteSets, TLC

\* ------------------------------------------------------------------ bounds
\* Rows the table may hold, and the store's clock range.
MaxRows == 2
MaxTime == 2

\* The request bodies: every JSON object over the keys BodyFields, the keys
\* of the writable columns carrying any of Values and the keys of the
\* read-only columns, when present, the one value Override.
Values == {"a", "b"}
Override == "b"
BodyFields == {"title", "email", "entity_id", "created_at"}
Bodies ==
    {b \in UNION {[S -> Values] : S \in SUBSET BodyFields} :
        \A f \in DOMAIN b \cap {"entity_id", "created_at"} : b[f] = Override}
Ids == 1..(MaxRows + 1)

\* SQL NULL, as cursor.fetchone delivers it in a column (Python None).
NULL == 0

Min(S) == CHOOSE x \in S : \A y \in S : x <= y
Max(S) == CHOOSE x \in S : \A y \in S : y <= x
Range(s) == {s[i] : i \in DOMAIN s}

\* ------------------------------------------------------------- descriptor
\* The default lambdas "lambda x: x" that __init__ fills in for every column.
read_transforms(col, x) == x
write_transforms(col, x) == x

\* Entity.__init__
Entity(table_name, cols, read_columns, exposed_column_names, allow_delete) ==
    LET all_columns == <<"id">> \o cols \o read_columns
    IN [table |-> table_name,
        columns |-> cols,
        all_columns |-> all_columns,
        column_name2exposed_name |->
            [c \in Range(all_columns) |->
                IF c \in DOMAIN exposed_column_names
                THEN exposed_column_names[c] ELSE c],
        allow_delete |-> allow_delete]

\* The descriptors in use: the "group" resource of the tests, whose id is
\* exposed as entity_id and whose name column is exposed as title.
ExposedNames == [c \in {"id", "name"} |-> IF c = "id" THEN "entity_id" ELSE "title"]
WithDelete == Entity("group", <<"name", "email">>, <<"created_at", "deleted_at">>, ExposedNames, TRUE)
NoDelete == Entity("group", <<"name", "email">>, <<"created_at", "deleted_at">>, ExposedNames, FALSE)
Entities == {WithDelete, NoDelete}

\* Columns of the table carrying a UNIQUE constraint (email, in the tests).
unique_columns == {"email"}

\* ------------------------------------------------------- results of a call
\* A Python call either returns a value or raises.
Ret(type, value) == [kind |-> "return", exc |-> "", msg |-> "", type |-> type, value |-> value]
Exc(exc, msg) == [kind |-> "raise", exc |-> exc, msg |-> msg, type |-> "", value |-> <<>>]
NotCalled == [kind |-> "none", exc |-> "", msg |-> "", type |-> "", value |-> <<>>]

\* What a method leaves behind: its result, the store, its cursor events.
Run(out, db, events) == [out |-> out, db |-> db, trace |-> events]

\* ------------------------------------------------------------------ store
\* cur.execute("SELECT all_fields FROM table WHERE id=%s"); cur.fetchone()
SelectRow(self, tbl, id) ==
    [i \in 1..Len(self.all_columns) |-> tbl[id][self.all_columns[i]]]

\* A unique key of the new row is held by another row.
Duplicate(tbl, id, row) ==
    {u \in unique_columns : \E j \in DOMAIN tbl : j # id /\ tbl[j][u] = row[u]}

\* Mutant of ExecuteUpdate: the row is written anew (REPLACE INTO), so the
\* columns the statement does not name fall back to their defaults.
ExecuteReplace(self, db, values, id) ==
    IF id \notin DOMAIN db.table
    THEN [err |-> "", msg |-> "", db |-> db]
    ELSE LET old == db.table[id]
             new == [c \in DOMAIN old |->
                        IF \E i \in 1..Len(self.columns) : self.columns[i] = c
                        THEN values[CHOOSE i \in 1..Len(self.columns) : self.columns[i] = c]
                        ELSE IF c = "id" THEN id
                        ELSE IF c = "created_at" THEN db.now
                        ELSE NULL]
             dup == Duplicate(db.table, id, new)
         IN IF dup # {}
            THEN [err |-> "IntegrityError", msg |-> new[CHOOSE u \in dup : TRUE], db |-> db]
            ELSE [err |-> "", msg |-> "",
                  db |-> [db EXCEPT !.table = [@ EXCEPT ![id] = new]]]

\* cur.execute("UPDATE table SET c1=%s,... WHERE id=%s", (*values, id))
ExecuteUpdate(self, db, values, id) ==
    IF id \notin DOMAIN db.table
    THEN [err |-> "", msg |-> "", db |-> db]
    ELSE LET old == db.table[id]
             new == [c \in DOMAIN old |->
                        IF \E i \in 1..Len(self.columns) : self.columns[i] = c
                        THEN values[CHOOSE i \in 1..Len(self.columns) : self.columns[i] = c]
                        ELSE old[c]]
             dup == Duplicate(db.table, id, new)
         IN IF dup # {}
            THEN [err |-> "IntegrityError", msg |-> new[CHOOSE u \in dup : TRUE], db |-> db]
            ELSE [err |-> "", msg |-> "",
                  db |-> [db EXCEPT !.table = [@ EXCEPT ![id] = new]]]

\* cur.execute("INSERT INTO table (fields) VALUES(...)", values); cur.lastrowid
ExecuteInsert(self, db, values, t) ==
    LET id == db.auto_increment
        new == [c \in {"id", "name", "email", "created_at", "deleted_at"} |->
                   IF \E i \in 1..Len(self.columns) : self.columns[i] = c
                   THEN values[CHOOSE i \in 1..Len(self.columns) : self.columns[i] = c]
                   ELSE IF c = "id" THEN id
                   ELSE IF c = "created_at" THEN t
                   ELSE NULL]
        dup == Duplicate(db.table, id, new)
    IN IF dup # {}
       THEN [err |-> "IntegrityError", msg |-> new[CHOOSE u \in dup : TRUE],
             db |-> db, lastrowid |-> 0]
       ELSE [err |-> "", msg |-> "",
             db |-> [table |-> [j \in DOMAIN db.table \cup {id} |->
                                   IF j = id THEN new ELSE db.table[j]],
                     auto_increment |-> id + 1,
                     now |-> t],
             lastrowid |-> id]

\* Mutant of ExecuteSoftDelete: DELETE FROM table WHERE id=%s.
ExecuteHardDelete(db, id, t) ==
    [db EXCEPT !.table = [j \in DOMAIN @ \ {id} |-> @[j]]]

\* cur.execute("UPDATE table SET deleted_at=CURRENT_TIMESTAMP WHERE id=%s")
ExecuteSoftDelete(db, id, t) ==
    IF id \notin DOMAIN db.table
    THEN db
    ELSE [db EXCEPT !.table = [@ EXCEPT ![id] = [@ EXCEPT !["deleted_at"] = t]],
                    !.now = t]

\* The ids a SELECT with the given WHERE clause matches.
Matching(tbl, where) ==
    IF where = "deleted_at IS NULL"
    THEN {j \in DOMAIN tbl : tbl[j]["deleted_at"] = NULL}
    ELSE DOMAIN tbl

RECURSIVE InIdOrder(_)
InIdOrder(S) == IF S = {} THEN <<>> ELSE <<Min(S)>> \o InIdOrder(S \ {Min(S)})

\* Mutant of WithCursor: cur.close() as the block's last statement, which an
\* exception skips.
WithCursorNoFinally(body) ==
    [body EXCEPT !.trace = IF body.out.kind = "raise"
                           THEN <<"cursor">> \o @
                           ELSE <<"cursor">> \o @ \o <<"close">>]

\* "with self.db.cursor() as cur: body": the cursor is closed when the block
\* is left, by return or by exception.
WithCursor(body) == [body EXCEPT !.trace = <<"cursor">> \o @ \o <<"close">>]

\* ----------------------------------------------------------------- Entity
\* Mutant of _convert_to_dict: the record is keyed by column name, not by
\* exposed name.
_convert_to_dict_unaliased(self, row) ==
    [c \in Range(self.all_columns) |->
        LET i == Max({k \in 1..Len(self.all_columns) : self.all_columns[k] = c})
        IN read_transforms(c, row[i])]

_convert_to_dict(self, row) ==
    LET n == Len(self.all_columns)
        name(i) == self.column_name2exposed_name[self.all_columns[i]]
    IN [f \in {name(i) : i \in 1..n} |->
           LET i == Max({k \in 1..n : name(k) = f})
           IN read_transforms(self.all_columns[i], row[i])]

_convert_to_row(self, data) ==
    LET n == Len(self.columns)
        name(i) == self.column_name2exposed_name[self.columns[i]]
        missing == {i \in 1..n : name(i) \notin DOMAIN data}
    IN IF missing # {}
       THEN Exc("KeyError", name(Min(missing)))
       ELSE Ret("list", [i \in 1..n |-> write_transforms(self.columns[i], data[name(i)])])

get(self, db, id) ==
    WithCursor(
        IF id \notin DOMAIN db.table
        THEN Run(Exc("NotFound", "No item with id"), db, <<"execute">>)
        ELSE Run(Ret("dict", _convert_to_dict(self, SelectRow(self, db.table, id))),
                 db, <<"execute">>))

put(self, db, data, id) ==
    WithCursor(
        LET values == _convert_to_row(self, data)
        IN IF values.kind = "raise"
           THEN Run(values, db, <<>>)
           ELSE LET done == ExecuteUpdate(self, db, values.value, id)
                IN IF done.err # ""
                   THEN Run(Exc(done.err, done.msg), db, <<"execute">>)
                   ELSE Run(Ret("None", <<>>), done.db, <<"execute">>))

post(self, db, data, t) ==
    WithCursor(
        LET values == _convert_to_row(self, data)
        IN IF values.kind = "raise"
           THEN Run(values, db, <<>>)
           ELSE LET done == ExecuteInsert(self, db, values.value, t)
                IN IF done.err # ""
                   THEN Run(Exc(done.err, done.msg), db, <<"execute">>)
                   ELSE LET got == get(self, done.db, done.lastrowid)
                        IN Run(got.out, got.db, <<"execute">> \o got.trace))

\* Mutant of delete: allow_delete is not consulted.
delete_unchecked(self, db, id, t) ==
    WithCursor(Run(Ret("None", <<>>), ExecuteSoftDelete(db, id, t), <<"execute">>))

delete(self, db, id, t) ==
    IF ~self.allow_delete
    THEN Run(Ret("MethodNotAllowed", <<>>), db, <<>>)
    ELSE WithCursor(Run(Ret("None", <<>>), ExecuteSoftDelete(db, id, t), <<"execute">>))

\* Mutant of list: the default WHERE clause is dropped.
list_unfiltered(self, db, where) ==
    LET ids == InIdOrder(Matching(db.table, IF where = "DEFAULT_WHERE" THEN "None" ELSE where))
    IN WithCursor(
        Run(Ret("list", [k \in 1..Len(ids) |->
                            _convert_to_dict(self, SelectRow(self, db.table, ids[k]))]),
            db, <<"execute">>))

list(self, db, where) ==
    LET clause == IF where = "DEFAULT_WHERE"
                  THEN (IF self.allow_delete THEN "deleted_at IS NULL" ELSE "None")
                  ELSE where
        ids == InIdOrder(Matching(db.table, clause))
    IN WithCursor(
        Run(Ret("list", [k \in 1..Len(ids) |->
                            _convert_to_dict(self, SelectRow(self, db.table, ids[k]))]),
            db, <<"execute">>))

\* ----------------------------------------------------------- route_helper
Response(code, status, has_data, data) ==
    [code |-> code, status |-> status, has_data |-> has_data, data |-> data]
NoResponse == Response(0, "", FALSE, <<>>)

\* wrapper(): what the client is answered, given what f did.  An exception
\* other than NotFound is printed and raised again, which Flask answers 500;
\* so is a result jsonify cannot serialise.
route_helper(out, status) ==
    IF out.kind = "raise"
    THEN IF out.exc = "NotFound"
         THEN Response(404, "not found", FALSE, <<>>)
         ELSE Response(500, "Internal Server Error", FALSE, <<>>)
    ELSE IF out.type = "None"
         THEN Response(200, status, FALSE, <<>>)
         ELSE IF out.type = "MethodNotAllowed"
              THEN Response(500, "Internal Server Error", FALSE, <<>>)
              ELSE Response(200, status, TRUE, out.value)

\* Entity.add_routes: the (method, path) pairs registered for a descriptor.
add_routes(self) ==
    {<<"GET", "item">>, <<"PUT", "item">>, <<"POST", "collection">>, <<"GET", "collection">>}
        \cup (IF self.allow_delete THEN {<<"DELETE", "item">>} ELSE {})

\* ------------------------------------------------------------------ state
VARIABLES
    table,           \* the backing table: id -> stored row
    auto_increment,  \* the table's AUTO_INCREMENT counter
    now,             \* the store's clock, as last observed by a statement
    request,         \* the request or call served last
    returned,        \* what the Entity method returned or raised
    response,        \* what route_helper answered
    trace,           \* cursor events of the request served last
    open_cursors,    \* cursors acquired and not yet closed
    racing           \* a put and a delete of one row in flight together

vars == <<table, auto_increment, now, request, returned, response, trace, open_cursors,
          racing>>

db_now == [table |-> table, auto_increment |-> auto_increment, now |-> now]

Request(op, self, id, has_json, data) ==
    [op |-> op, self |-> self, id |-> id, has_json |-> has_json, data |-> data]
NoRequest == Request("none", WithDelete, 0, FALSE, <<>>)
Idle == request = NoRequest

Count(s, e) == Cardinality({i \in DOMAIN s : s[i] = e})

\* No pair of handlers is in flight.
NoRace ==
    [phase |-> "none", self |-> WithDelete, id |-> 0, data |-> <<>>, before |-> <<>>,
     put_pc |-> "", delete_pc |-> "", put_response |-> NoResponse,
     delete_response |-> NoResponse, deleted_at |-> NULL, order |-> <<>>]

\* The store and the bookkeeping after a method ran.
Finish(run, resp) ==
    /\ Cardinality(DOMAIN run.db.table) <= MaxRows
    /\ table' = run.db.table
    /\ auto_increment' = run.db.auto_increment
    /\ now' = run.db.now
    /\ returned' = run.out
    /\ response' = resp
    /\ trace' = run.trace
    /\ open_cursors' = open_cursors + Count(run.trace, "cursor") - Count(run.trace, "close")
    /\ racing' = racing

MethodNotAllowed405 == Response(405, "The method is not allowed for the requested URL.", FALSE, <<>>)
MissingJson400 == Response(400, "missing json", FALSE, <<>>)

Init ==
    /\ table = <<>>
    /\ auto_increment = 1
    /\ now = 1
    /\ request = NoRequest
    /\ returned = NotCalled
    /\ response = NoResponse
    /\ trace = <<>>
    /\ open_cursors = 0
    /\ racing = NoRace

\* GET basePath/{id}
HttpGet(self, id) ==
    /\ Idle
    /\ request' = Request("get", self, id, FALSE, <<>>)
    /\ LET run == get(self, db_now, id)
       IN Finish(run, route_helper(run.out, "ok"))

\* PUT basePath/{id}
HttpPut(self, id, has_json, data) ==
    /\ Idle
    /\ request' = Request("put", self, id, has_json, data)
    /\ IF ~has_json
       THEN Finish(Run(NotCalled, db_now, <<>>), MissingJson400)
       ELSE LET run == put(self, db_now, data, id)
            IN Finish(run, route_helper(run.out, "updated"))

\* POST basePath
HttpPost(self, has_json, data, t) ==
    /\ Idle
    /\ request' = Request("post", self, 0, has_json, data)
    /\ IF ~has_json
       THEN Finish(Run(NotCalled, db_now, <<>>), MissingJson400)
       ELSE LET run == post(self, db_now, data, t)
            IN Finish(run, route_helper(run.out, "created"))

\* DELETE basePath/{id}
HttpDelete(self, id, t) ==
    /\ Idle
    /\ request' = Request("delete", self, id, FALSE, <<>>)
    /\ IF <<"DELETE", "item">> \notin add_routes(self)
       THEN Finish(Run(NotCalled, db_now, <<>>), MethodNotAllowed405)
       ELSE LET run == delete(self, db_now, id, t)
            IN Finish(run, route_helper(run.out, "deleted"))

\* GET basePath
HttpList(self) ==
    /\ Idle
    /\ request' = Request("list", self, 0, FALSE, <<>>)
    /\ LET run == list(self, db_now, "DEFAULT_WHERE")
       IN Finish(run, route_helper(run.out, "ok"))

\* entity.delete(id) called directly, not through a route
CallDelete(self, id, t) ==
    /\ Idle
    /\ request' = Request("call_delete", self, id, FALSE, <<>>)
    /\ Finish(delete(self, db_now, id, t), NoResponse)

\* The answer leaves the service: wrapper() returns and the request is over.
Respond ==
    /\ ~Idle
    /\ racing = NoRace
    /\ request' = NoRequest
    /\ returned' = NotCalled
    /\ response' = NoResponse
    /\ trace' = <<>>
    /\ UNCHANGED <<table, auto_increment, now, open_cursors, racing>>

Next ==
    \/ \E self \in Entities, id \in Ids : HttpGet(self, id)
    \/ \E self \in Entities, id \in Ids, data \in Bodies : HttpPut(self, id, TRUE, data)
    \/ \E self \in Entities, id \in Ids : HttpPut(self, id, FALSE, <<>>)
    \/ \E self \in Entities, data \in Bodies, t \in now..MaxTime : HttpPost(self, TRUE, data, t)
    \/ \E self \in Entities : HttpPost(self, FALSE, <<>>, now)
    \/ \E self \in Entities, id \in Ids, t \in now..MaxTime : HttpDelete(self, id, t)
    \/ \E self \in Entities : HttpList(self)
    \/ \E self \in Entities, id \in Ids, t \in now..MaxTime : CallDelete(self, id, t)
    \/ Respond

Spec == Init /\ [][Next]_vars

\* ------------------------------------------------- two requests in flight
\* PUT basePath/{id} and DELETE basePath/{id} arrive together for a row of
\* the table; until both are answered no other request is taken.
RaceBegin(self, id, data) ==
    /\ Idle
    /\ racing = NoRace
    /\ <<"DELETE", "item">> \in add_routes(self)
    /\ id \in DOMAIN table
    /\ request' = Request("race", self, id, TRUE, data)
    /\ racing' = [NoRace EXCEPT !.phase = "running", !.self = self, !.id = id,
                                !.data = data, !.before = table,
                                !.put_pc = "start", !.delete_pc = "start"]
    /\ UNCHANGED <<table, auto_increment, now, returned, response, trace, open_cursors>>

\* Either handler enters its "with self.db.cursor() as cur" block.
RacePutEnter ==
    /\ racing.put_pc = "start"
    /\ racing' = [racing EXCEPT !.put_pc = "cursor"]
    /\ open_cursors' = open_cursors + 1
    /\ UNCHANGED <<table, auto_increment, now, request, returned, response, trace>>

RaceDeleteEnter ==
    /\ racing.delete_pc = "start"
    /\ racing' = [racing EXCEPT !.delete_pc = "cursor"]
    /\ open_cursors' = open_cursors + 1
    /\ UNCHANGED <<table, auto_increment, now, request, returned, response, trace>>

\* The rest of Entity.put: _convert_to_row, the UPDATE, the block's exit.
RacePutRun ==
    /\ racing.put_pc = "cursor"
    /\ LET run == put(racing.self, db_now, racing.data, racing.id)
       IN /\ table' = run.db.table
          /\ auto_increment' = run.db.auto_increment
          /\ now' = run.db.now
          /\ open_cursors' = open_cursors + (Count(run.trace, "cursor") - 1)
                                 - Count(run.trace, "close")
          /\ racing' = [racing EXCEPT !.put_pc = "done",
                                      !.put_response = route_helper(run.out, "updated"),
                                      !.order = Append(@, "put")]
    /\ UNCHANGED <<request, returned, response, trace>>

\* The rest of Entity.delete: the UPDATE of deleted_at, the block's exit.
RaceDeleteRun(t) ==
    /\ racing.delete_pc = "cursor"
    /\ LET run == delete(racing.self, db_now, racing.id, t)
       IN /\ table' = run.db.table
          /\ auto_increment' = run.db.auto_increment
          /\ now' = run.db.now
          /\ open_cursors' = open_cursors + (Count(run.trace, "cursor") - 1)
                                 - Count(run.trace, "close")
          /\ racing' = [racing EXCEPT !.delete_pc = "done",
                                      !.delete_response = route_helper(run.out, "deleted"),
                                      !.deleted_at = t,
                                      !.order = Append(@, "delete")]
    /\ UNCHANGED <<request, returned, response, trace>>

\* Both answers have left the service.
RaceEnd ==
    /\ racing.put_pc = "done"
    /\ racing.delete_pc = "done"
    /\ racing' = NoRace
    /\ request' = NoRequest
    /\ UNCHANGED <<table, auto_increment, now, returned, response, trace, open_cursors>>

NextRace ==
    \/ Next
    \/ \E self \in Entities, id \in Ids, data \in Bodies : RaceBegin(self, id, data)
    \/ RacePutEnter
    \/ RaceDeleteEnter
    \/ RacePutRun
    \/ \E t \in now..MaxTime : RaceDeleteRun(t)
    \/ RaceEnd

SpecRace == Init /\ [][NextRace]_vars

\* ---------------------------------------------------- properties: helpers
\* The exposed names of the writable columns, and a body that has them all.
WritableFields(self) == {self.column_name2exposed_name[c] : c \in Range(self.columns)}
Complete(self, data) == WritableFields(self) \subseteq DOMAIN data

\* What GET basePath answers through the allow_delete=True descriptor over tbl.
Listing(tbl) ==
    Range(list(WithDelete, [table |-> tbl, auto_increment |-> auto_increment, now |-> now],
               "DEFAULT_WHERE").out.value)
ListedIds(tbl) == {r["entity_id"] : r \in Listing(tbl)}

\* What GET basePath/{id} answers over tbl.
Fetch(self, tbl, id) ==
    route_helper(get(self, [table |-> tbl, auto_increment |-> auto_increment, now |-> now],
                     id).out, "ok")

Deletes(req) == req.op \in {"delete", "call_delete"} /\ req.self.allow_delete

\* ------------------------------------------------------------------- C1
\* C1: through the allow_delete=True descriptor the default list shows the
\* live rows and nothing else, and every request changes it by its own
\* delta only: a created row appears (under an id not listed before), a
\* deleted id disappears, a put touches the record of its id alone, and
\* every other request leaves the listing as it was.
C1_ListDelta ==
    [][~Idle' =>
        LET before == Listing(table)
            after == Listing(table')
            req == request'
        IN /\ ListedIds(table') = {j \in DOMAIN table' : table'[j]["deleted_at"] = NULL}
           /\ Cardinality(after) = Cardinality(ListedIds(table'))
           /\ IF req.op = "post" /\ response'.status = "created"
              THEN /\ response'.data \in after
                   /\ response'.data["entity_id"] \notin ListedIds(table)
                   /\ after \ {response'.data} = before
              ELSE IF Deletes(req)
              THEN /\ req.id \notin ListedIds(table')
                   /\ after = {r \in before : r["entity_id"] # req.id}
              ELSE IF req.op = "put"
              THEN {r \in after : r["entity_id"] # req.id}
                       = {r \in before : r["entity_id"] # req.id}
              ELSE after = before]_vars

\* A listed row was deleted while another row stayed listed.
C1_Witness ==
    /\ Deletes(request)
    /\ request.id \in DOMAIN table
    /\ request.id \notin ListedIds(table)
    /\ ListedIds(table) # {}

\* ------------------------------------------------------------------- C2
\* C2: delete is a soft delete.  No request removes a row or clears a
\* deleted_at; after delete(id) of an existing row a get(id) answers 200
\* with the record of that id and deleted_at set; and get answers 200 for
\* every row of the table, deleted or not.
C2_SoftDelete ==
    [][/\ DOMAIN table \subseteq DOMAIN table'
       /\ \A j \in DOMAIN table :
            table[j]["deleted_at"] # NULL => table'[j]["deleted_at"] # NULL
       /\ \A j \in DOMAIN table', self \in Entities :
            LET r == Fetch(self, table', j)
            IN /\ r.code = 200
               /\ r.has_data
               /\ r.data["entity_id"] = j
               /\ r.data["deleted_at"] = table'[j]["deleted_at"]
       /\ (Deletes(request') /\ request'.id \in DOMAIN table) =>
            LET r == Fetch(request'.self, table', request'.id)
            IN /\ r.code = 200
               /\ r.data["entity_id"] = request'.id
               /\ r.data["deleted_at"] # NULL
       /\ (request'.op = "get" /\ request'.id \in DOMAIN table) =>
            /\ response'.code = 200
            /\ response'.data["entity_id"] = request'.id
            /\ response'.data["deleted_at"] = table[request'.id]["deleted_at"]]_vars

\* A get of a soft-deleted row was answered.
C2_Witness ==
    /\ request.op = "get"
    /\ request.id \in DOMAIN table
    /\ table[request.id]["deleted_at"] # NULL
    /\ response.code = 200
    /\ response.data["deleted_at"] # NULL

\* ------------------------------------------------------------------- C3
\* C3: a put writes the writable columns of the row of its id and nothing
\* else: for every body, the ids of the table, every row's id, created_at
\* and deleted_at, and every other row stay as they were; when the put
\* succeeds on an existing row, the writable columns hold the body's values.
C3_PutFrame ==
    [][request'.op = "put" =>
        /\ DOMAIN table' = DOMAIN table
        /\ auto_increment' = auto_increment
        /\ \A j \in DOMAIN table :
            /\ j # request'.id => table'[j] = table[j]
            /\ \A c \in {"id", "created_at", "deleted_at"} : table'[j][c] = table[j][c]
        /\ (response'.code = 200 /\ request'.id \in DOMAIN table) =>
            /\ table'[request'.id]["name"] = request'.data["title"]
            /\ table'[request'.id]["email"] = request'.data["email"]]_vars

\* A put whose body carried an id and a created_at was applied to a soft-deleted
\* row, next to another row.
C3_Witness ==
    /\ request.op = "put"
    /\ {"entity_id", "created_at"} \subseteq DOMAIN request.data
    /\ response.code = 200
    /\ request.id \in DOMAIN table
    /\ table[request.id]["deleted_at"] # NULL
    /\ table[request.id]["name"] = request.data["title"]
    /\ Cardinality(DOMAIN table) = 2

\* ------------------------------------------------------------------- C4
\* C4: a post whose body lacks the exposed field of a writable column is
\* answered 400 or 422, and no statement is executed.
C4_MissingFieldRejected ==
    (request.op = "post" /\ request.has_json /\ ~Complete(request.self, request.data)) =>
        /\ response.code \in {400, 422}
        /\ "execute" \notin Range(trace)

\* ------------------------------------------------------------------- C5
\* C5: get, put and delete of an id that has no row are answered 404 with
\* status "not found".
C5_MissingIdNotFound ==
    (/\ request.op \in {"get", "put", "delete"}
     /\ request.id \notin DOMAIN table
     /\ request.op = "put" => (request.has_json /\ Complete(request.self, request.data))
     /\ request.op = "delete" => request.self.allow_delete) =>
        /\ response.code = 404
        /\ response.status = "not found"

\* ------------------------------------------------------------------- C6
\* C6: a put answered 200 carries status "updated" and, as data, the
\* record after the update: the id of the row and the values written.
C6_PutReturnsRecord ==
    (request.op = "put" /\ request.id \in DOMAIN table /\ response.code = 200) =>
        /\ response.status = "updated"
        /\ response.has_data
        /\ response.data["entity_id"] = request.id
        /\ response.data["title"] = request.data["title"]

\* ------------------------------------------------------------------- C7
\* C7: with allow_delete=False no DELETE route is registered (the HTTP
\* request is answered 405 without calling delete), a direct delete(id)
\* returns MethodNotAllowed without acquiring a cursor or executing a
\* statement, no request through that descriptor changes a deleted_at, and
\* the default list returns every row of the table, deleted or not.
C7_DeleteDisabled ==
    [][(~Idle' /\ ~request'.self.allow_delete) =>
        /\ <<"DELETE", "item">> \notin add_routes(request'.self)
        /\ DOMAIN table \subseteq DOMAIN table'
        /\ \A j \in DOMAIN table : table'[j]["deleted_at"] = table[j]["deleted_at"]
        /\ request'.op = "call_delete" =>
            /\ returned'.kind = "return"
            /\ returned'.type = "MethodNotAllowed"
            /\ trace' = <<>>
            /\ table' = table
        /\ request'.op = "delete" =>
            /\ returned' = NotCalled
            /\ response'.code = 405
            /\ trace' = <<>>
            /\ table' = table
        /\ request'.op = "list" =>
            /\ response'.code = 200
            /\ Len(response'.data) = Cardinality(DOMAIN table)
            /\ {r["entity_id"] : r \in Range(response'.data)} = DOMAIN table
            /\ \A r \in Range(response'.data) :
                r["deleted_at"] = table[r["entity_id"]]["deleted_at"]]_vars

\* The allow_delete=False descriptor listed a table holding a soft-deleted row.
C7_Witness ==
    /\ request.op = "list"
    /\ ~request.self.allow_delete
    /\ \E r \in Range(response.data) : r["deleted_at"] # NULL

\* ------------------------------------------------------------------- C8
\* C8: a post whose email is that of an existing row is answered 422 and
\* creates no row.
C8_DuplicateIs422 ==
    [][(/\ request'.op = "post"
        /\ request'.has_json
        /\ Complete(request'.self, request'.data)
        /\ \E j \in DOMAIN table : table[j]["email"] = request'.data["email"]) =>
            /\ response'.code = 422
            /\ table' = table]_vars

\* ------------------------------------------------------------------- C9
\* What C9 says of a post of the complete body r that the table before it was tbl.
RoundTrip(tbl) ==
    LET r == request'.data
        self == request'.self
    IN /\ response'.status = "created"
       /\ response'.has_data
       /\ "entity_id" \in DOMAIN response'.data
       /\ response'.data["entity_id"] \notin DOMAIN tbl
       /\ \A f \in WritableFields(self) :
            f \in DOMAIN response'.data /\ response'.data[f] = r[f]
       /\ LET g == Fetch(self, table', response'.data["entity_id"])
          IN /\ g.code = 200
             /\ g.data = response'.data

\* C9 as stated: every post of a body with all the writable fields is
\* answered "created" with a record under a fresh id that agrees with the
\* body on the writable fields, and a get of that id returns the same record.
C9_RoundTripAlways ==
    [][(request'.op = "post" /\ request'.has_json
            /\ Complete(request'.self, request'.data)) => RoundTrip(table)]_vars

\* C9, amended: the same, for every such body whose values of the unique
\* columns no row of the table holds yet (the store accepts the insert).
C9_RoundTrip ==
    [][(/\ request'.op = "post" /\ request'.has_json
        /\ Complete(request'.self, request'.data)
        /\ \A j \in DOMAIN table : table[j]["email"] # request'.data["email"])
            => RoundTrip(table)]_vars

\* A second row was created by a post whose body also carried read-only keys.
C9_Witness ==
    /\ request.op = "post"
    /\ response.status = "created"
    /\ response.data["title"] = request.data["title"]
    /\ response.data["email"] = request.data["email"]
    /\ "entity_id" \in DOMAIN request.data
    /\ Cardinality(DOMAIN table) = 2

\* ------------------------------------------------------------------ C10
\* C10: when a request has been served no cursor is open: in the events of
\* every request each cursor acquired is closed, never more closed than
\* acquired, whether the method returned or raised.
Balanced(s) ==
    /\ Count(s, "cursor") = Count(s, "close")
    /\ \A n \in 0..Len(s) :
         Count(SubSeq(s, 1, n), "close") <= Count(SubSeq(s, 1, n), "cursor")

C10_CursorsReleased ==
    /\ open_cursors = 0
    /\ Balanced(trace)
    /\ returned.kind = "raise" => Count(trace, "cursor") >= 1

\* A post's INSERT was refused by the store while its cursor was open.
C10_Witness ==
    /\ request.op = "post"
    /\ returned.kind = "raise"
    /\ returned.exc = "IntegrityError"
    /\ trace = <<"cursor", "execute", "close">>
    /\ open_cursors = 0

\* ------------------------------------------------------------------ C11
\* The row the pair leaves behind when the put is accepted: the row as it
\* was, with the put's values in the writable columns and the delete's
\* timestamp in deleted_at.
BothApplied ==
    [racing.before[racing.id] EXCEPT !["name"] = racing.data["title"],
                                     !["email"] = racing.data["email"],
                                     !["deleted_at"] = racing.deleted_at]

\* The put of the pair is one the store accepts on its own: its body has
\* every writable field and its email is held by no other row.
PutAccepted ==
    /\ Complete(racing.self, racing.data)
    /\ \A j \in DOMAIN racing.before :
         j # racing.id => racing.before[j]["email"] # racing.data["email"]

\* C11: when a put and a delete of the same existing row have both run, in
\* whichever order their statements reached the store, the delete is
\* answered "deleted", the put is answered as it is when it runs alone
\* ("updated" when the store accepts it), the row holds the put's writable
\* values and a deleted_at, every other row is as it was, and no cursor is
\* left open.
C11_PutAndDeleteCommute ==
    (racing.put_pc = "done" /\ racing.delete_pc = "done") =>
        /\ racing.delete_response.code = 200
        /\ racing.delete_response.status = "deleted"
        /\ (racing.put_response.code = 200) = PutAccepted
        /\ DOMAIN table = DOMAIN racing.before
        /\ \A j \in DOMAIN table : j # racing.id => table[j] = racing.before[j]
        /\ table[racing.id]["deleted_at"] # NULL
        /\ PutAccepted =>
            /\ racing.put_response.status = "updated"
            /\ table[racing.id] = BothApplied
        /\ open_cursors = 0

\* The delete's statement ran first and the put's second, and the put changed
\* a row that was not deleted before, next to another row.
C11_Witness ==
    /\ racing.put_pc = "done"
    /\ racing.delete_pc = "done"
    /\ racing.order = <<"delete", "put">>
    /\ racing.put_response.code = 200
    /\ racing.before[racing.id]["deleted_at"] = NULL
    /\ racing.before[racing.id]["name"] # racing.data["title"]
    /\ table[racing.id]["name"] = racing.data["title"]
    /\ table[racing.id]["deleted_at"] # NULL
    /\ Cardinality(DOMAIN table) = 2

====
